---- MODULE Spec2Model ----
(***************************************************************************)
(* gcoap forward proxy (sys/net/application_layer/gcoap/forward_proxy.c).  *)
(*                                                                         *)
(* State: the client endpoint table _client_eps, the engine's table of     *)
(* open request memos, the nanocoap response cache, the ZTIMER_SEC clock   *)
(* and the registry of network interfaces.  One action per handler the     *)
(* engine runs: the request handler (_forward_proxy_handler) and the       *)
(* response handler (_forward_resp_handler), each run to completion; the   *)
(* variable `last` records what the handler that ran last was given and    *)
(* what it emitted (reply, upstream packet, dispatches, cache calls).      *)
(***************************************************************************)
EXTENDS Integers, Sequences, FiniteSets, TLC

VARIABLES client_eps, memos, cache, now, netifs, cache_used, last

vars == <<client_eps, memos, cache, now, netifs, cache_used, last>>

(***************************************************************************)
(* Program constants.                                                      *)
(***************************************************************************)
COAP_OPT_IF_MATCH == 1
COAP_OPT_ETAG == 4
COAP_OPT_URI_PATH == 11
COAP_OPT_CONTENT_FORMAT == 12
COAP_OPT_MAX_AGE == 14
COAP_OPT_URI_QUERY == 15
COAP_OPT_ACCEPT == 17
COAP_OPT_PROXY_URI == 35

COAP_METHOD_GET == 1
COAP_METHOD_POST == 2
COAP_METHOD_FETCH == 5

COAP_CODE_VALID == 67
COAP_CODE_CONTENT == 69
COAP_CODE_BAD_OPTION == 130
COAP_CODE_PATH_NOT_FOUND == 132
COAP_CODE_INTERNAL_SERVER_ERROR == 160
COAP_CODE_PROXYING_NOT_SUPPORTED == 165

COAP_PORT == 5683
SOCK_ADDR_ANY_NETIF == 0
SCRATCH_SIZE == 8
DEFAULT_MAX_AGE == 60

ENOENT == 2
EPERM == 1
ENOMEM == 12
EINVAL == 22

\* number of slots of _client_eps (CONFIG_GCOAP_REQ_WAITING_MAX)
REQ_WAITING_MAX == 2

(***************************************************************************)
(* Bounds of the model.                                                    *)
(***************************************************************************)
\* the clock runs from 0 to MaxNow
MaxNow == 1
\* longest list of options of an inbound request
MaxOpts == 2

NULL == "NULL"

(***************************************************************************)
(* C strings: sequences of one-character strings; NUL ends a C string.     *)
(***************************************************************************)
NUL == "NUL"

Str_coap == <<"c", "o", "a", "p">>
Str_co == <<"c", "o">>
Str_coaps == <<"c", "o", "a", "p", "s">>
Str_http == <<"h", "t", "t", "p">>

\* the character at 1-based position i of the NUL-terminated string s
CharAt(s, i) == IF i <= Len(s) THEN s[i] ELSE NUL

RECURSIVE strncmp_at(_, _, _, _)
strncmp_at(s1, s2, n, i) ==
    IF i > n THEN 0
    ELSE IF CharAt(s1, i) # CharAt(s2, i) THEN 1
    ELSE IF CharAt(s1, i) = NUL THEN 0
    ELSE strncmp_at(s1, s2, n, i + 1)

\* strncmp(s1, s2, n): 0 iff the first n characters (up to a NUL) agree
strncmp(s1, s2, n) == strncmp_at(s1, s2, n, 1)

Digits == <<"0", "1", "2", "3", "4", "5", "6", "7", "8", "9">>

IsDigit(c) == \E d \in 1..10 : Digits[d] = c

DigitVal(c) == (CHOOSE d \in 1..10 : Digits[d] = c) - 1

RECURSIVE atoi_at(_, _, _)
atoi_at(s, i, acc) ==
    IF i > Len(s) \/ ~IsDigit(s[i]) THEN acc
    ELSE atoi_at(s, i + 1, acc * 10 + DigitVal(s[i]))

\* atoi on a digit string: the value of its leading decimal digits
atoi(s) == atoi_at(s, 1, 0)

(***************************************************************************)
(* Option lists.  An option is [num, val]; a packet holds them in the      *)
(* order of the wire.                                                      *)
(***************************************************************************)
Opt(n, v) == [num |-> n, val |-> v]

\* index of the first option numbered n, 0 when there is none
FirstOpt(opts, n) ==
    IF \E i \in 1..Len(opts) : opts[i].num = n
    THEN CHOOSE i \in 1..Len(opts) :
            /\ opts[i].num = n
            /\ \A j \in 1..(i - 1) : opts[j].num # n
    ELSE 0

\* coap_opt_get_opaque: the length of the first option n, -ENOENT without one
coap_opt_get_opaque_len(opts, n) ==
    IF FirstOpt(opts, n) = 0 THEN -ENOENT ELSE Len(opts[FirstOpt(opts, n)].val)

\* coap_opt_get_opaque: the value of the first option n
coap_opt_get_opaque_val(opts, n) ==
    IF FirstOpt(opts, n) = 0 THEN <<>> ELSE opts[FirstOpt(opts, n)].val

NumsOf(opts) == [i \in 1..Len(opts) |-> opts[i].num]

CountOpt(opts, n) == Cardinality({i \in 1..Len(opts) : opts[i].num = n})

NonDecreasing(s) == \A i \in 1..(Len(s) - 1) : s[i] <= s[i + 1]

(***************************************************************************)
(* Parsed Proxy-Uri values (uri_parser_result_t).  ok: uri_parser_process  *)
(* returned 0; absolute: uri_parser_is_absolute; ipv6addr is "NULL" for a  *)
(* host that is no IPv6 literal; zoneid, port and query are <<>> when      *)
(* absent; path and query are held as their segments.                      *)
(***************************************************************************)
ADDR_GLOBAL == "2001:db8::1"
ADDR_LINK_LOCAL == "fe80::1"
ADDR_UNPARSABLE == "fe80::zz"

UriBase ==
    [ok |-> TRUE, absolute |-> TRUE, scheme |-> Str_coap,
     ipv6addr |-> ADDR_GLOBAL, zoneid |-> <<>>, port |-> <<>>,
     path |-> <<"a">>, query |-> <<>>]

\* the Proxy-Uri values other than UriBase that clients send
UriVariants ==
    {[UriBase EXCEPT !.ok = FALSE],
     [UriBase EXCEPT !.absolute = FALSE, !.scheme = <<>>],
     [UriBase EXCEPT !.ipv6addr = NULL],
     [UriBase EXCEPT !.ipv6addr = ADDR_UNPARSABLE],
     [UriBase EXCEPT !.scheme = Str_http, !.ipv6addr = NULL],
     [UriBase EXCEPT !.port = <<"0">>]}
    \cup {[UriBase EXCEPT !.scheme = s] : s \in {Str_co, Str_coaps, Str_http}}
    \cup {[UriBase EXCEPT !.ipv6addr = ADDR_LINK_LOCAL, !.zoneid = z] :
            z \in {<<>>, <<"7">>, <<"9">>}}

Uris == {UriBase} \cup UriVariants

\* ipv6_addr_from_buf: NULL for a literal that is no IPv6 address
ipv6_addr_from_buf(lit) == IF lit = ADDR_UNPARSABLE THEN NULL ELSE lit

ipv6_addr_is_link_local(addr) == addr = ADDR_LINK_LOCAL

\* remote->port is a uint16_t
Uint16(n) == n % 65536

NoEp == [addr |-> NULL, netif |-> SOCK_ADDR_ANY_NETIF, port |-> 0]

\* the interface _parse_endpoint selects: -1 when the zone-id names none
ParseNetif(urip, ifs) ==
    IF urip.zoneid # <<>>
    THEN IF Len(urip.zoneid) > SCRATCH_SIZE - 1 THEN -1
         ELSE IF atoi(urip.zoneid) \notin ifs THEN -1
         ELSE atoi(urip.zoneid)
    ELSE IF Cardinality(ifs) = 1 THEN CHOOSE i \in ifs : TRUE
         ELSE SOCK_ADDR_ANY_NETIF

\* _parse_endpoint without the test of lines 243-246
_parse_endpoint_AnyLinkLocal(urip, ifs) ==
    LET netif == ParseNetif(urip, ifs)
        addr == ipv6_addr_from_buf(urip.ipv6addr)
        port == IF urip.port # <<>> THEN Uint16(atoi(urip.port)) ELSE COAP_PORT
    IN  IF urip.ipv6addr = NULL THEN [ok |-> FALSE, ep |-> NoEp]
        ELSE IF netif = -1 THEN [ok |-> FALSE, ep |-> NoEp]
        ELSE IF addr = NULL THEN [ok |-> FALSE, ep |-> NoEp]
        ELSE IF port = 0 THEN [ok |-> FALSE, ep |-> NoEp]
        ELSE [ok |-> TRUE, ep |-> [addr |-> addr, netif |-> netif, port |-> port]]

\* _parse_endpoint(remote, urip): [ok, ep]
_parse_endpoint(urip, ifs) ==
    LET netif == ParseNetif(urip, ifs)
        addr == ipv6_addr_from_buf(urip.ipv6addr)
        port == IF urip.port # <<>> THEN Uint16(atoi(urip.port)) ELSE COAP_PORT
    IN  IF urip.ipv6addr = NULL THEN [ok |-> FALSE, ep |-> NoEp]
        ELSE IF netif = -1 THEN [ok |-> FALSE, ep |-> NoEp]
        ELSE IF addr = NULL THEN [ok |-> FALSE, ep |-> NoEp]
        ELSE IF netif = SOCK_ADDR_ANY_NETIF /\ ipv6_addr_is_link_local(addr)
             THEN [ok |-> FALSE, ep |-> NoEp]
        ELSE IF port = 0 THEN [ok |-> FALSE, ep |-> NoEp]
        ELSE [ok |-> TRUE, ep |-> [addr |-> addr, netif |-> netif, port |-> port]]

(***************************************************************************)
(* The client endpoint table.                                              *)
(***************************************************************************)
Slots == 1..REQ_WAITING_MAX

\* a zeroed client_ep_t
ZeroSlot == [in_use |-> FALSE, validating |-> FALSE, ep |-> 0, cache_key |-> <<>>]

\* the first slot with in_use = false, 0 when there is none
FirstFree(eps) ==
    IF \E i \in Slots : ~eps[i].in_use
    THEN CHOOSE i \in Slots : ~eps[i].in_use /\ \A j \in 1..(i - 1) : eps[j].in_use
    ELSE 0

\* _allocate_client_ep that takes the last slot over when none is free
_allocate_client_ep_Reuse(eps, ep) ==
    LET cep == IF FirstFree(eps) = 0 THEN REQ_WAITING_MAX ELSE FirstFree(eps)
    IN  [cep |-> cep,
         eps |-> [eps EXCEPT ![cep].in_use = TRUE,
                             ![cep].validating = FALSE,
                             ![cep].ep = ep]]

\* _allocate_client_ep(ep): [cep, eps]; cep = 0 stands for NULL
_allocate_client_ep(eps, ep) ==
    LET cep == FirstFree(eps)
    IN  IF cep = 0 THEN [cep |-> 0, eps |-> eps]
        ELSE [cep |-> cep,
              eps |-> [eps EXCEPT ![cep].in_use = TRUE,
                                  ![cep].validating = FALSE,
                                  ![cep].ep = ep]]

\* _free_client_ep(cep): memset(cep, 0, sizeof(*cep))
_free_client_ep(eps, cep) == [eps EXCEPT ![cep] = ZeroSlot]

InUse(eps) == {i \in Slots : eps[i].in_use}

(***************************************************************************)
(* The Option Rewriter.  ce is <<>> (NULL) or <<entry>>; add_ok says       *)
(* whether coap_opt_add_chars finds room for the Uri-Path and for the      *)
(* Uri-Query options in proxy_req_buf.                                     *)
(***************************************************************************)
SegOpts(num, segs) == [i \in 1..Len(segs) |-> Opt(num, <<segs[i]>>)]

\* _gcoap_forward_proxy_add_uri_path(pkt, urip): [ret, opts]
_gcoap_forward_proxy_add_uri_path(opts, urip, add_ok) ==
    IF ~add_ok.path THEN [ret |-> -EINVAL, opts |-> opts]
    ELSE IF urip.query # <<>> /\ ~add_ok.query
         THEN [ret |-> -EINVAL, opts |-> opts \o SegOpts(COAP_OPT_URI_PATH, urip.path)]
    ELSE [ret |-> 0,
          opts |-> opts \o SegOpts(COAP_OPT_URI_PATH, urip.path)
                        \o SegOpts(COAP_OPT_URI_QUERY, urip.query)]

\* the state of the loop of _gcoap_forward_proxy_copy_options before option 1
CopyStart(validating) ==
    [ret |-> 0, opts |-> <<>>, validating |-> validating,
     uri_path_added |-> FALSE, etag_added |-> FALSE]

\* CopyEtagStep with the latch etag_added never set
CopyEtagStep_NoLatch(st, opt, ce) ==
    IF ~st.etag_added /\ opt.num >= COAP_OPT_ETAG /\ ce # <<>>
    THEN [st EXCEPT
            !.opts = IF coap_opt_get_opaque_len(ce[1].response.opts, COAP_OPT_ETAG) > 0
                     THEN @ \o <<Opt(COAP_OPT_ETAG,
                                     coap_opt_get_opaque_val(ce[1].response.opts,
                                                             COAP_OPT_ETAG))>>
                     ELSE @]
    ELSE st

\* the ETag step of the loop body (lines 370-381)
CopyEtagStep(st, opt, ce) ==
    IF ~st.etag_added /\ opt.num >= COAP_OPT_ETAG /\ ce # <<>>
    THEN [st EXCEPT
            !.opts = IF coap_opt_get_opaque_len(ce[1].response.opts, COAP_OPT_ETAG) > 0
                     THEN @ \o <<Opt(COAP_OPT_ETAG,
                                     coap_opt_get_opaque_val(ce[1].response.opts,
                                                             COAP_OPT_ETAG))>>
                     ELSE @,
            !.etag_added = TRUE]
    ELSE st

\* the Uri-Path step of the loop body (lines 389-394)
CopyUriPathStep(st, opt, urip, add_ok) ==
    IF ~st.uri_path_added /\ opt.num > COAP_OPT_URI_PATH
    THEN LET r == _gcoap_forward_proxy_add_uri_path(st.opts, urip, add_ok)
         IN  [st EXCEPT !.ret = r.ret, !.opts = r.opts,
                        !.uri_path_added = (r.ret = 0)]
    ELSE st

\* CopyOne without the skip of Proxy-Uri (lines 396-398)
CopyOne_KeepProxyUri(st0, opt, urip, ce, add_ok) ==
    LET st1 == CopyEtagStep(st0, opt, ce)
    IN  IF opt.num = COAP_OPT_ETAG THEN [st1 EXCEPT !.validating = TRUE]
        ELSE LET st2 == CopyUriPathStep(st1, opt, urip, add_ok)
             IN  IF st2.ret # 0 THEN st2
                 ELSE [st2 EXCEPT !.opts = @ \o <<opt>>]

\* CopyOne that marks the slot validating only when there is a cache entry
CopyOne_ValidatingNeedsEntry(st0, opt, urip, ce, add_ok) ==
    LET st1 == CopyEtagStep(st0, opt, ce)
    IN  IF opt.num = COAP_OPT_ETAG THEN [st1 EXCEPT !.validating = @ \/ ce # <<>>]
        ELSE LET st2 == CopyUriPathStep(st1, opt, urip, add_ok)
             IN  IF st2.ret # 0 THEN st2
                 ELSE IF opt.num = COAP_OPT_PROXY_URI THEN st2
                 ELSE [st2 EXCEPT !.opts = @ \o <<opt>>]

\* one pass of the loop body (lines 365-401) for the inbound option opt
CopyOne(st0, opt, urip, ce, add_ok) ==
    LET st1 == CopyEtagStep(st0, opt, ce)
    IN  IF opt.num = COAP_OPT_ETAG THEN [st1 EXCEPT !.validating = TRUE]
        ELSE LET st2 == CopyUriPathStep(st1, opt, urip, add_ok)
             IN  IF st2.ret # 0 THEN st2
                 ELSE IF opt.num = COAP_OPT_PROXY_URI THEN st2
                 ELSE [st2 EXCEPT !.opts = @ \o <<opt>>]

RECURSIVE CopyLoop(_, _, _, _, _, _)
CopyLoop(st, client_opts, i, urip, ce, add_ok) ==
    IF i > Len(client_opts) \/ st.ret # 0 THEN st
    ELSE CopyLoop(CopyOne(st, client_opts[i], urip, ce, add_ok),
                  client_opts, i + 1, urip, ce, add_ok)

\* _gcoap_forward_proxy_copy_options(pkt, client_pkt, cep, urip, ce):
\* [ret, opts, validating]; ret is -EINVAL or stands for the length (1)
_gcoap_forward_proxy_copy_options(client_opts, validating, urip, ce, add_ok) ==
    LET st == CopyLoop(CopyStart(validating), client_opts, 1, urip, ce, add_ok)
    IN  [ret |-> IF st.ret # 0 THEN -EINVAL ELSE 1,
         opts |-> st.opts,
         validating |-> st.validating]

(***************************************************************************)
(* Packets.  A request is [code, token, opts]; a response is               *)
(* [code, opts, payload].  The value of a Proxy-Uri option is held as the  *)
(* result the URI parser gives for it, the value of an ETag as its bytes,  *)
(* the value of Max-Age as <<uint32>>.                                     *)
(***************************************************************************)
\* coap_get_proxy_uri: the length of the first Proxy-Uri option (1 in the
\* model's units), -ENOENT without one
coap_get_proxy_uri(pkt) ==
    IF FirstOpt(pkt.opts, COAP_OPT_PROXY_URI) = 0 THEN -ENOENT ELSE 1

ProxyUriOf(pkt) == pkt.opts[FirstOpt(pkt.opts, COAP_OPT_PROXY_URI)].val

\* _request_matcher_forward_proxy: GCOAP_RESOURCE_FOUND or not
_request_matcher_forward_proxy(pkt) == coap_get_proxy_uri(pkt) > 0

\* length of a packet in the model's units: header, options, payload
PduLen(pkt) == 4 + Len(pkt.opts) + Len(pkt.payload)

\* A uint32_t is held as its two 16-bit halves [hi, lo].
ToU32(n) == [hi |-> (n \div 65536) % 65536, lo |-> n % 65536]

\* a + b in uint32_t arithmetic
Add32(a, b) ==
    [hi |-> (a.hi + b.hi + ((a.lo + b.lo) \div 65536)) % 65536,
     lo |-> (a.lo + b.lo) % 65536]

\* a > b for two uint32_t
Gt32(a, b) == a.hi > b.hi \/ (a.hi = b.hi /\ a.lo > b.lo)

\* coap_opt_get_uint(pdu, COAP_OPT_MAX_AGE, &max_age) with max_age preset to dflt
MaxAgeOf(resp, dflt) ==
    IF FirstOpt(resp.opts, COAP_OPT_MAX_AGE) = 0 THEN ToU32(dflt)
    ELSE resp.opts[FirstOpt(resp.opts, COAP_OPT_MAX_AGE)].val[1]

(***************************************************************************)
(* The response cache (nanocoap_cache): a key is the digest of the         *)
(* request, taken here as the path of its Proxy-Uri; cache[key] is <<>>    *)
(* (no entry) or <<entry>>, entry = [request_method, max_age, response].   *)
(***************************************************************************)
Keys == {u.path : u \in Uris}

nanocoap_cache_key_generate(pkt) == ProxyUriOf(pkt).path

nanocoap_cache_key_lookup(cch, key) == IF key \in DOMAIN cch THEN cch[key] ELSE <<>>

\* nanocoap_cache_process: a 2.05 Content is stored under key, replacing
\* the entry there; any other response leaves the cache as it is
nanocoap_cache_process(cch, key, method, resp, t) ==
    IF resp.code = COAP_CODE_CONTENT /\ key \in DOMAIN cch
    THEN [cch EXCEPT ![key] =
            <<[request_method |-> method,
               max_age |-> Add32(ToU32(t), MaxAgeOf(resp, DEFAULT_MAX_AGE)),
               response |-> resp]>>]
    ELSE cch

\* lines 74-86 of _cache_build_response: the ETag of the request validates
\* the cache entry
EtagValidates(ce, pkt) ==
    LET req_etag_len == coap_opt_get_opaque_len(pkt.opts, COAP_OPT_ETAG)
        req_etag == coap_opt_get_opaque_val(pkt.opts, COAP_OPT_ETAG)
        cache_etag_len == coap_opt_get_opaque_len(ce.response.opts, COAP_OPT_ETAG)
        cache_etag == coap_opt_get_opaque_val(ce.response.opts, COAP_OPT_ETAG)
    IN  /\ pkt.code \in {COAP_METHOD_GET, COAP_METHOD_FETCH}
        /\ req_etag_len > 0
        /\ cache_etag_len = req_etag_len
        /\ req_etag = cache_etag

\* _cache_build_response(ce, pdu, buf, len): the response written to buf
_cache_build_response(ce, pkt) ==
    IF EtagValidates(ce, pkt)
    THEN [code |-> COAP_CODE_VALID,
          opts |-> <<Opt(COAP_OPT_ETAG,
                         coap_opt_get_opaque_val(pkt.opts, COAP_OPT_ETAG))>>,
          payload |-> <<>>]
    ELSE [code |-> ce.response.code,
          opts |-> ce.response.opts,
          payload |-> ce.response.payload]

\* coap_get_total_hdr_len(pdu): the header and the token, where the options
\* begin (lines 98-105); one unit of length per option and payload byte
coap_get_total_hdr_len(pkt) == 4

\* the value _cache_build_response returns: at line 89 the length of the
\* header alone, at line 105 that of the header, the options and the payload
_cache_build_response_ret(ce, pkt) ==
    IF EtagValidates(ce, pkt)
    THEN coap_get_total_hdr_len(pkt)
    ELSE coap_get_total_hdr_len(pkt) + Len(ce.response.opts) + Len(ce.response.payload)

\* the message in the first len units of a buffer holding resp: what the
\* engine sends for a handler that returned len (line 194)
BufMessage(resp, len) ==
    [code |-> resp.code,
     opts |-> SubSeq(resp.opts, 1,
                     IF len - 4 < Len(resp.opts) THEN len - 4 ELSE Len(resp.opts)),
     payload |-> SubSeq(resp.payload, 1,
                        IF len - 4 - Len(resp.opts) < Len(resp.payload)
                        THEN len - 4 - Len(resp.opts) ELSE Len(resp.payload))]

\* CacheHit with max_age >= now for max_age > now
CacheHit_StaleAtDeadline(ce, pkt, t) ==
    /\ ce # <<>>
    /\ ce[1].request_method = pkt.code
    /\ ~Gt32(ToU32(t), ce[1].max_age)

\* the condition of line 122-124: hit, same method, not stale
CacheHit(ce, pkt, t) ==
    /\ ce # <<>>
    /\ ce[1].request_method = pkt.code
    /\ Gt32(ce[1].max_age, ToU32(t))

\* _cache_lookup_and_process(pdu, buf, len, cep, ce):
\* [ret, eps, ce, resp]; resp is <<>> or <<the response built in buf>>
_cache_lookup_and_process(pkt, eps, cep, cch, t) ==
    LET cache_key == nanocoap_cache_key_generate(pkt)
        ce == nanocoap_cache_key_lookup(cch, cache_key)
    IN  IF CacheHit(ce, pkt, t)
        THEN [ret |-> _cache_build_response_ret(ce[1], pkt),
              eps |-> eps, ce |-> ce,
              resp |-> <<BufMessage(_cache_build_response(ce[1], pkt),
                                    _cache_build_response_ret(ce[1], pkt))>>]
        ELSE [ret |-> 0,
              eps |-> [eps EXCEPT ![cep].cache_key = cache_key],
              ce |-> ce, resp |-> <<>>]

(***************************************************************************)
(* The engine (gcoap): its table of open requests and its send primitive.  *)
(* A memo is [context, token, ep, code]: the slot bound as context of the  *)
(* response handler, the token and method of the request, the origin.      *)
(***************************************************************************)
SendResults == {"sent", "cannot", "error"}
ENOTCONN == 107

\* gcoap_forward_proxy_find_req_memo(&memo, client_pkt, &origin_server_ep)
gcoap_forward_proxy_find_req_memo(mms, pkt, ep) ==
    {m \in mms : m.token = pkt.token /\ m.ep = ep}

\* gcoap_req_send(buf, len, remote, resp_handler, context): [ret, memos];
\* res is what the engine makes of it: the request is on its way and a memo
\* awaits the response, or it cannot be sent (0), or a negative error
gcoap_req_send(mms, pkt, len, ep, cep, res) ==
    IF res = "sent"
    THEN [ret |-> len,
          memos |-> mms \cup {[context |-> cep, token |-> pkt.token,
                               ep |-> ep, code |-> pkt.code]}]
    ELSE IF res = "cannot" THEN [ret |-> 0, memos |-> mms]
    ELSE [ret |-> -ENOTCONN, memos |-> mms]

(***************************************************************************)
(* The request handler.                                                    *)
(***************************************************************************)
\* what a run of gcoap_forward_proxy_request_process did, before any step
NoRun(eps, mms) ==
    [ret |-> 0, eps |-> eps, memos |-> mms, cep |-> 0,
     lookups |-> 0, hit |-> FALSE, key |-> <<>>, resp |-> <<>>,
     resolved |-> "none", dup |-> FALSE, rewrite |-> "none",
     send |-> "none", sent |-> <<>>]

\* lines 441-464 of _gcoap_forward_proxy_via_coap: the packet is built and
\* handed to gcoap_req_send; co is what the Option Rewriter returned
ViaSend(run, pkt, ep, co, env) ==
    IF co.ret = -EINVAL
    THEN [run EXCEPT !.ret = -EINVAL, !.resolved = "ok", !.rewrite = "EINVAL",
                     !.eps[run.cep].validating = co.validating]
    ELSE [run EXCEPT
            !.ret = gcoap_req_send(run.memos, pkt, co.ret, ep, run.cep, env.send).ret,
            !.memos = gcoap_req_send(run.memos, pkt, co.ret, ep, run.cep, env.send).memos,
            !.resolved = "ok", !.rewrite = "ok", !.send = env.send,
            !.eps[run.cep].validating = co.validating,
            !.sent = IF env.send = "sent"
                     THEN <<[code |-> pkt.code, token |-> pkt.token,
                             opts |-> co.opts, ep |-> ep, context |-> run.cep]>>
                     ELSE <<>>]

\* ViaResolved that reports a duplicate as a failure
ViaResolved_DupIsError(run, pkt, urip, ce, env, pe) ==
    IF ~pe.ok THEN [run EXCEPT !.ret = -EINVAL, !.resolved = "failed"]
    ELSE IF gcoap_forward_proxy_find_req_memo(run.memos, pkt, pe.ep) # {}
         THEN [run EXCEPT !.ret = -EINVAL, !.resolved = "ok", !.dup = TRUE,
                          !.eps = _free_client_ep(run.eps, run.cep)]
    ELSE ViaSend(run, pkt, pe.ep,
                 _gcoap_forward_proxy_copy_options(
                     pkt.opts, run.eps[run.cep].validating, urip, ce, env.add_ok),
                 env)

\* ViaResolved that keeps the slot of a duplicate
ViaResolved_DupKeepsSlot(run, pkt, urip, ce, env, pe) ==
    IF ~pe.ok THEN [run EXCEPT !.ret = -EINVAL, !.resolved = "failed"]
    ELSE IF gcoap_forward_proxy_find_req_memo(run.memos, pkt, pe.ep) # {}
         THEN [run EXCEPT !.ret = 0, !.resolved = "ok", !.dup = TRUE]
    ELSE ViaSend(run, pkt, pe.ep,
                 _gcoap_forward_proxy_copy_options(
                     pkt.opts, run.eps[run.cep].validating, urip, ce, env.add_ok),
                 env)

\* lines 427-439 of _gcoap_forward_proxy_via_coap; pe is what _parse_endpoint
\* returned
ViaResolved(run, pkt, urip, ce, env, pe) ==
    IF ~pe.ok THEN [run EXCEPT !.ret = -EINVAL, !.resolved = "failed"]
    ELSE IF gcoap_forward_proxy_find_req_memo(run.memos, pkt, pe.ep) # {}
         THEN [run EXCEPT !.ret = 0, !.resolved = "ok", !.dup = TRUE,
                          !.eps = _free_client_ep(run.eps, run.cep)]
    ELSE ViaSend(run, pkt, pe.ep,
                 _gcoap_forward_proxy_copy_options(
                     pkt.opts, run.eps[run.cep].validating, urip, ce, env.add_ok),
                 env)

\* _gcoap_forward_proxy_via_coap(client_pkt, client_ep, urip, ce)
_gcoap_forward_proxy_via_coap(run, pkt, urip, ce, ifs, env) ==
    ViaResolved(run, pkt, urip, ce, env, _parse_endpoint(urip, ifs))

\* ViaReturned that keeps the slot when the forwarding failed
ViaReturned_NoFree(via) ==
    IF via.ret < 0 THEN [via EXCEPT !.ret = -EINVAL] ELSE [via EXCEPT !.ret = 0]

\* lines 514-517: what gcoap_forward_proxy_request_process makes of the
\* result via of _gcoap_forward_proxy_via_coap
ViaReturned(via) ==
    IF via.ret < 0
    THEN [via EXCEPT !.ret = -EINVAL, !.eps = _free_client_ep(via.eps, via.cep)]
    ELSE [via EXCEPT !.ret = 0]

\* line 512: the scheme is taken for CoAP
SchemeIsCoap(urip) == strncmp(Str_coap, urip.scheme, Len(urip.scheme)) = 0

\* lines 495-525 of gcoap_forward_proxy_request_process: from the Proxy-Uri on
ProcessProxyUri(run, pkt, urip, ce, ifs, env) ==
    IF coap_get_proxy_uri(pkt) < 0
    THEN [run EXCEPT !.ret = coap_get_proxy_uri(pkt),
                     !.eps = _free_client_ep(run.eps, run.cep)]
    ELSE IF ~urip.ok \/ ~urip.absolute
         THEN [run EXCEPT !.ret = -EINVAL,
                          !.eps = _free_client_ep(run.eps, run.cep)]
    ELSE IF SchemeIsCoap(urip)
         THEN ViaReturned(_gcoap_forward_proxy_via_coap(run, pkt, urip, ce, ifs, env))
    ELSE [run EXCEPT !.ret = -EPERM,
                     !.eps = _free_client_ep(run.eps, run.cep)]

\* lines 480-493: l is what _cache_lookup_and_process returned
ProcessLookedUp(run, l, pkt, ifs, env) ==
    IF l.ret > 0
    THEN [run EXCEPT !.lookups = 1, !.ret = l.ret, !.hit = TRUE, !.resp = l.resp,
                     !.eps = _free_client_ep(l.eps, run.cep)]
    ELSE ProcessProxyUri([run EXCEPT !.lookups = 1, !.eps = l.eps,
                                     !.key = <<l.eps[run.cep].cache_key>>],
                         pkt, ProxyUriOf(pkt), l.ce, ifs, env)

\* lines 473-493: a is what _allocate_client_ep returned
ProcessAllocated(a, mms, cch, t, ifs, used, pkt, env) ==
    IF a.cep = 0 THEN [NoRun(a.eps, mms) EXCEPT !.ret = -ENOMEM]
    ELSE IF ~used
         THEN ProcessProxyUri([NoRun(a.eps, mms) EXCEPT !.cep = a.cep],
                              pkt, ProxyUriOf(pkt), <<>>, ifs, env)
    ELSE ProcessLookedUp([NoRun(a.eps, mms) EXCEPT !.cep = a.cep],
                         _cache_lookup_and_process(pkt, a.eps, a.cep, cch, t),
                         pkt, ifs, env)

\* gcoap_forward_proxy_request_process(pkt, client)
gcoap_forward_proxy_request_process(eps, mms, cch, t, ifs, used, pkt, client, env) ==
    ProcessAllocated(_allocate_client_ep(eps, client), mms, cch, t, ifs, used, pkt, env)

\* gcoap_response(pdu, buf, len, code): a response with no option, no payload
gcoap_response(code) == [code |-> code, opts |-> <<>>, payload |-> <<>>]

\* lines 181-194: the response the engine sends back for the return value of
\* gcoap_forward_proxy_request_process, <<>> when there is none
HandlerReply(run) ==
    IF run.ret = -ENOMEM THEN <<gcoap_response(COAP_CODE_INTERNAL_SERVER_ERROR)>>
    ELSE IF run.ret = -EINVAL THEN <<gcoap_response(COAP_CODE_BAD_OPTION)>>
    ELSE IF run.ret = -EPERM
         THEN <<gcoap_response(COAP_CODE_PROXYING_NOT_SUPPORTED)>>
    ELSE run.resp

\* lines 181-194: the length _forward_proxy_handler returns
HandlerLen(run) ==
    IF run.ret \in {-ENOMEM, -EINVAL, -EPERM} THEN PduLen(gcoap_response(0))
    ELSE run.ret

\* _forward_proxy_handler(pdu, buf, len, ctx): the run of the request
\* processing it made
_forward_proxy_handler(eps, mms, cch, t, ifs, used, pkt, client, env) ==
    gcoap_forward_proxy_request_process(eps, mms, cch, t, ifs, used, pkt, client, env)

(***************************************************************************)
(* The response handler.                                                   *)
(***************************************************************************)
MemoStates == {"RESP", "TIMEOUT", "ERR"}

\* gcoap_forward_proxy_dispatch(buf, len, &cep->ep)
Dispatch(msg, ep) == [msg |-> msg, to |-> ep]

\* lines 286-327: the cache's part of a RESP, [cache, dispatched, lookups, processed]
\* RespCachePart that relays a 2.03 Valid whose cache entry is gone
RespCachePart_RelayWhenGone(cep, cch, t, memo, pdu) ==
    LET ce == nanocoap_cache_key_lookup(cch, cep.cache_key)
        max_age == MaxAgeOf(pdu, DEFAULT_MAX_AGE)
        from_cache == [code |-> ce[1].response.code,
                       opts |-> ce[1].response.opts,
                       payload |-> ce[1].response.payload]
    IN  IF pdu.code = COAP_CODE_VALID /\ ~cep.validating
        THEN IF ce # <<>>
             THEN [cache |-> [cch EXCEPT ![cep.cache_key][1].max_age =
                                             Add32(ToU32(t), max_age)],
                   dispatched |-> <<Dispatch(from_cache, cep.ep)>>,
                   lookups |-> 1, processed |-> <<>>]
             ELSE [cache |-> cch, dispatched |-> <<Dispatch(pdu, cep.ep)>>,
                   lookups |-> 1, processed |-> <<>>]
        ELSE [cache |-> nanocoap_cache_process(cch, cep.cache_key, memo.code, pdu, t),
              dispatched |-> <<>>, lookups |-> 0,
              processed |-> <<[key |-> cep.cache_key, method |-> memo.code,
                               resp |-> pdu]>>]

RespCachePart(cep, cch, t, memo, pdu) ==
    LET ce == nanocoap_cache_key_lookup(cch, cep.cache_key)
        max_age == MaxAgeOf(pdu, DEFAULT_MAX_AGE)
        from_cache == [code |-> ce[1].response.code,
                       opts |-> ce[1].response.opts,
                       payload |-> ce[1].response.payload]
    IN  IF pdu.code = COAP_CODE_VALID /\ ~cep.validating
        THEN IF ce # <<>>
             THEN [cache |-> [cch EXCEPT ![cep.cache_key][1].max_age =
                                             Add32(ToU32(t), max_age)],
                   dispatched |-> <<Dispatch(from_cache, cep.ep)>>,
                   lookups |-> 1, processed |-> <<>>]
             ELSE [cache |-> cch, dispatched |-> <<>>,
                   lookups |-> 1, processed |-> <<>>]
        ELSE [cache |-> nanocoap_cache_process(cch, cep.cache_key, memo.code, pdu, t),
              dispatched |-> <<>>, lookups |-> 0,
              processed |-> <<[key |-> cep.cache_key, method |-> memo.code,
                               resp |-> pdu]>>]

\* _forward_resp_handler without the test of memo->state
_forward_resp_handler_AnyState(eps, cch, t, used, memo, state, pdu) ==
    LET cep == eps[memo.context]
        relay == IF ~used \/ pdu.code # COAP_CODE_VALID \/ cep.validating
                 THEN <<Dispatch(pdu, cep.ep)>> ELSE <<>>
        cp == RespCachePart(cep, cch, t, memo, pdu)
    IN  IF ~used
        THEN [eps |-> _free_client_ep(eps, memo.context), cache |-> cch,
              dispatched |-> relay, lookups |-> 0, processed |-> <<>>]
        ELSE [eps |-> _free_client_ep(eps, memo.context), cache |-> cp.cache,
              dispatched |-> relay \o cp.dispatched,
              lookups |-> cp.lookups, processed |-> cp.processed]

\* _forward_resp_handler that relays whatever the code of the response
_forward_resp_handler_RelayAll(eps, cch, t, used, memo, state, pdu) ==
    LET cep == eps[memo.context]
        relay == <<Dispatch(pdu, cep.ep)>>
        cp == RespCachePart(cep, cch, t, memo, pdu)
    IN  IF state # "RESP"
        THEN [eps |-> _free_client_ep(eps, memo.context), cache |-> cch,
              dispatched |-> <<>>, lookups |-> 0, processed |-> <<>>]
        ELSE IF ~used
             THEN [eps |-> _free_client_ep(eps, memo.context), cache |-> cch,
                   dispatched |-> relay, lookups |-> 0, processed |-> <<>>]
        ELSE [eps |-> _free_client_ep(eps, memo.context), cache |-> cp.cache,
              dispatched |-> relay \o cp.dispatched,
              lookups |-> cp.lookups, processed |-> cp.processed]

\* _forward_resp_handler(memo, pdu, remote):
\* [eps, cache, dispatched, lookups, processed]
_forward_resp_handler(eps, cch, t, used, memo, state, pdu) ==
    LET cep == eps[memo.context]
        relay == IF ~used \/ pdu.code # COAP_CODE_VALID \/ cep.validating
                 THEN <<Dispatch(pdu, cep.ep)>> ELSE <<>>
        cp == RespCachePart(cep, cch, t, memo, pdu)
    IN  IF state # "RESP"
        THEN [eps |-> _free_client_ep(eps, memo.context), cache |-> cch,
              dispatched |-> <<>>, lookups |-> 0, processed |-> <<>>]
        ELSE IF ~used
             THEN [eps |-> _free_client_ep(eps, memo.context), cache |-> cch,
                   dispatched |-> relay, lookups |-> 0, processed |-> <<>>]
        ELSE [eps |-> _free_client_ep(eps, memo.context), cache |-> cp.cache,
              dispatched |-> relay \o cp.dispatched,
              lookups |-> cp.lookups, processed |-> cp.processed]

(***************************************************************************)
(* Inputs.                                                                 *)
(***************************************************************************)
Clients == {1, 2}
Tokens == {1, 2}
Methods == {COAP_METHOD_GET, COAP_METHOD_POST}

\* options a client may put before its Proxy-Uri
PreOpts == {Opt(COAP_OPT_ETAG, <<1>>), Opt(COAP_OPT_CONTENT_FORMAT, <<0>>)}

SeqsUpTo(S, n) == UNION {[1..k -> S] : k \in 0..n}

Prefixes == {s \in SeqsUpTo(PreOpts, MaxOpts - 1) : NonDecreasing(NumsOf(s))}

\* requests for UriBase, with every method, token and list of options
BaseRequests ==
    [code : Methods, token : Tokens,
     opts : {pre \o <<Opt(COAP_OPT_PROXY_URI, UriBase)>> : pre \in Prefixes}]

\* one request for every other Proxy-Uri, and one without a Proxy-Uri
OtherRequests ==
    [code : {COAP_METHOD_GET}, token : {1},
     opts : {<<Opt(COAP_OPT_PROXY_URI, u)>> : u \in UriVariants}
            \cup {<<Opt(COAP_OPT_CONTENT_FORMAT, <<0>>)>>}]

Requests == BaseRequests \cup OtherRequests

AllRoom == [path |-> TRUE, query |-> TRUE]

\* what the environment answers: the room proxy_req_buf has for the Uri-Path
\* and Uri-Query options, and the result of the engine's send
Envs ==
    [send : SendResults, add_ok : {AllRoom}]
    \cup [send : {"sent"},
          add_ok : {[AllRoom EXCEPT !.path = FALSE], [AllRoom EXCEPT !.query = FALSE]}]

\* responses of an origin server
Responses ==
    {[code |-> COAP_CODE_CONTENT,
      opts |-> <<Opt(COAP_OPT_ETAG, <<1>>), Opt(COAP_OPT_MAX_AGE, <<ToU32(1)>>)>>,
      payload |-> <<"hi">>],
     [code |-> COAP_CODE_VALID, opts |-> <<Opt(COAP_OPT_MAX_AGE, <<ToU32(1)>>)>>,
      payload |-> <<>>],
     [code |-> COAP_CODE_VALID, opts |-> <<>>, payload |-> <<>>],
     [code |-> COAP_CODE_PATH_NOT_FOUND, opts |-> <<>>, payload |-> <<>>]}

\* the pdu the handler is given with an outcome other than RESP
NoResponse == [code |-> 0, opts |-> <<>>, payload |-> <<>>]

ResponseInputs == Responses \cup {NoResponse}

\* the registered network interfaces (gnrc_netif), by pid
NetifConfigs == {{6, 7}}

(***************************************************************************)
(* The state machine.                                                      *)
(***************************************************************************)
Idle == [op |-> "idle"]

Init ==
    /\ client_eps = [i \in Slots |-> ZeroSlot]
    /\ memos = {}
    /\ cache = [k \in Keys |-> <<>>]
    /\ now = 0
    /\ netifs \in NetifConfigs
    /\ cache_used \in BOOLEAN
    /\ last = Idle

\* what a run of the request handler leaves behind
Handled(run, pkt, client) ==
    /\ client_eps' = run.eps
    /\ memos' = run.memos
    /\ last' = [op |-> "request", pkt |-> pkt, client |-> client,
                eps |-> client_eps, memos |-> memos,
                run |-> run, reply |-> HandlerReply(run), len |-> HandlerLen(run)]

\* the engine hands a matched request to _forward_proxy_handler
RequestHandler ==
    /\ last = Idle
    /\ \E pkt \in Requests, client \in Clients, env \in Envs :
        /\ _request_matcher_forward_proxy(pkt)
        /\ Handled(_forward_proxy_handler(client_eps, memos, cache, now, netifs,
                                          cache_used, pkt, client, env),
                   pkt, client)
    /\ UNCHANGED <<cache, now, netifs, cache_used>>

\* what a run of the response handler leaves behind
Responded(r, memo, state, pdu) ==
    /\ client_eps' = r.eps
    /\ cache' = r.cache
    /\ memos' = memos \ {memo}
    /\ last' = [op |-> "response", memo |-> memo, state |-> state, pdu |-> pdu,
                eps |-> client_eps, memos |-> memos, cache |-> cache,
                dispatched |-> r.dispatched, lookups |-> r.lookups,
                processed |-> r.processed]

\* the engine reports the outcome of an open request to _forward_resp_handler
\* and drops the memo
ResponseHandler ==
    /\ last = Idle
    /\ \E memo \in memos, state \in MemoStates, resp \in ResponseInputs :
        /\ (state = "RESP") = (resp # NoResponse)
        /\ Responded(_forward_resp_handler(client_eps, cache, now, cache_used,
                                           memo, state, resp),
                     memo, state, resp)
    /\ UNCHANGED <<now, netifs, cache_used>>

\* the engine is back in its event loop
EngineIdle ==
    /\ last # Idle
    /\ last' = Idle
    /\ UNCHANGED <<client_eps, memos, cache, now, netifs, cache_used>>

\* ZTIMER_SEC advances
Tick ==
    /\ last = Idle
    /\ now < MaxNow
    /\ now' = now + 1
    /\ UNCHANGED <<client_eps, memos, cache, netifs, cache_used, last>>

\* the cache drops an entry
CacheEvict ==
    /\ last = Idle
    /\ \E k \in Keys :
        /\ cache[k] # <<>>
        /\ cache' = [cache EXCEPT ![k] = <<>>]
    /\ UNCHANGED <<client_eps, memos, now, netifs, cache_used, last>>

Next ==
    \/ RequestHandler
    \/ ResponseHandler
    \/ EngineIdle
    \/ Tick
    \/ CacheEvict

Spec == Init /\ [][Next]_vars

(***************************************************************************)
(* The Option Rewriter on its own: _gcoap_forward_proxy_copy_options is    *)
(* applied to every inbound list of options in ascending order that holds  *)
(* a Proxy-Uri, with every parsed URI, cache entry and room for options.   *)
(***************************************************************************)
\* longest inbound list of options given to the Option Rewriter
MaxRewriteOpts == 4

\* parsed URIs: zero to two path segments, with and without a query
RewriteUris ==
    {[UriBase EXCEPT !.path = p, !.query = q] :
        p \in {<<>>, <<"a">>, <<"a", "b">>}, q \in {<<>>, <<"q">>}}

\* the options of an inbound request: u is the value of its Proxy-Uri
RewritePool(u) ==
    {Opt(COAP_OPT_IF_MATCH, <<9>>),
     Opt(COAP_OPT_ETAG, <<1>>), Opt(COAP_OPT_ETAG, <<2>>),
     Opt(COAP_OPT_URI_PATH, <<"x">>),
     Opt(COAP_OPT_CONTENT_FORMAT, <<0>>),
     Opt(COAP_OPT_URI_QUERY, <<"y">>),
     Opt(COAP_OPT_ACCEPT, <<0>>),
     Opt(COAP_OPT_PROXY_URI, u)}

RewriteLists(u) ==
    {s \in SeqsUpTo(RewritePool(u), MaxRewriteOpts) :
        /\ NonDecreasing(NumsOf(s))
        /\ CountOpt(s, COAP_OPT_PROXY_URI) >= 1}

CachedResponse(opts) ==
    [request_method |-> COAP_METHOD_GET, max_age |-> ToU32(0),
     response |-> [code |-> COAP_CODE_CONTENT, opts |-> opts, payload |-> <<"hi">>]]

\* ce: NULL, an entry with an ETag, with an empty ETag, without an ETag
RewriteEntries ==
    {<<>>,
     <<CachedResponse(<<Opt(COAP_OPT_ETAG, <<1>>)>>)>>,
     <<CachedResponse(<<Opt(COAP_OPT_ETAG, <<7>>), Opt(COAP_OPT_ETAG, <<8>>)>>)>>,
     <<CachedResponse(<<Opt(COAP_OPT_ETAG, <<>>)>>)>>,
     <<CachedResponse(<<Opt(COAP_OPT_MAX_AGE, <<ToU32(1)>>)>>)>>}

Rooms == [path : BOOLEAN, query : BOOLEAN]

Rewritten(res, client_opts, urip, ce, add_ok) ==
    last' = [op |-> "rewrite", client_opts |-> client_opts, urip |-> urip,
             ce |-> ce, add_ok |-> add_ok, res |-> res]

\* a run of the Option Rewriter for a slot just allocated (validating = false)
Rewrite ==
    /\ last = Idle
    /\ \E urip \in RewriteUris, ce \in RewriteEntries, add_ok \in Rooms :
        \E client_opts \in RewriteLists(urip) :
            Rewritten(_gcoap_forward_proxy_copy_options(client_opts, FALSE, urip,
                                                        ce, add_ok),
                      client_opts, urip, ce, add_ok)
    /\ UNCHANGED <<client_eps, memos, cache, now, netifs, cache_used>>

NextRewrite ==
    \/ Rewrite
    \/ EngineIdle

SpecRewrite == Init /\ [][NextRewrite]_vars

(***************************************************************************)
(* Properties of the request handler and of the Option Rewriter.           *)
(***************************************************************************)
\* the request handler ran last
Req == last.op = "request"

\* the Option Rewriter ran last
Rew == last.op = "rewrite"

\* the slot table had a free slot when the handler started
HadFreeSlot == FirstFree(last.eps) # 0

\* the cache holds an entry for the key of the request the handler was given,
\* with the method of the request and a max_age greater than now
FreshEntry ==
    /\ cache_used
    /\ cache[nanocoap_cache_key_generate(last.pkt)] # <<>>
    /\ cache[nanocoap_cache_key_generate(last.pkt)][1].request_method = last.pkt.code
    /\ \/ cache[nanocoap_cache_key_generate(last.pkt)][1].max_age.hi > 0
       \/ cache[nanocoap_cache_key_generate(last.pkt)][1].max_age.lo > now

\* nothing went upstream and the table of open requests is as it was
NothingSent ==
    /\ last.run.sent = <<>>
    /\ last.run.send = "none"
    /\ memos = last.memos

\* the ETag options of a list of options
EtagsOf(opts) == SelectSeq(opts, LAMBDA o : o.num = COAP_OPT_ETAG)

\* C1: the option numbers of the outbound request the Option Rewriter built
\* are in non-decreasing order, with or without a query in the Proxy-Uri.
C1_OutboundNonDecreasing ==
    (Rew /\ last.res.ret # -EINVAL) => NonDecreasing(NumsOf(last.res.opts))

\* C2: between two handler runs, a slot is in use exactly when one open
\* upstream request has it as its context, and no open request refers to a
\* free slot, whatever the engine's send returned.
C2_SlotIffOneOutstanding ==
    /\ \A i \in Slots :
        client_eps[i].in_use <=> Cardinality({m \in memos : m.context = i}) = 1
    /\ \A m \in memos : client_eps[m.context].in_use

\* C3: no more than REQ_WAITING_MAX slots are in use, and a request that
\* arrives with every slot in use is answered 5.00, sends nothing upstream,
\* uses no cache lookup and leaves every slot as it was.
C3_FullTable ==
    /\ Cardinality(InUse(client_eps)) <= REQ_WAITING_MAX
    /\ (Req /\ ~HadFreeSlot) =>
        /\ last.reply = <<gcoap_response(COAP_CODE_INTERNAL_SERVER_ERROR)>>
        /\ last.run.lookups = 0
        /\ ~last.run.hit
        /\ NothingSent
        /\ client_eps = last.eps

C3_Witness ==
    /\ Req
    /\ ~HadFreeSlot
    /\ FreshEntry
    /\ last.reply = <<gcoap_response(COAP_CODE_INTERNAL_SERVER_ERROR)>>

\* C4: with the cache in use and a slot allocated, the request is answered
\* from the cache exactly when an entry for its key exists, has the method of
\* the request and a max_age greater than now; then nothing goes upstream and
\* the set of slots in use is as before; otherwise the key is stored in the
\* slot and the request goes on to forwarding.
C4_CacheHitIff ==
    (Req /\ cache_used /\ HadFreeSlot) =>
        /\ last.run.lookups = 1
        /\ last.run.hit <=> FreshEntry
        /\ FreshEntry =>
            /\ last.reply =
                 <<BufMessage(
                     _cache_build_response(
                         cache[nanocoap_cache_key_generate(last.pkt)][1], last.pkt),
                     last.len)>>
            /\ last.len >= coap_get_total_hdr_len(last.pkt)
            /\ NothingSent
            /\ InUse(client_eps) = InUse(last.eps)
        /\ ~FreshEntry =>
            /\ last.run.key = <<nanocoap_cache_key_generate(last.pkt)>>
            /\ client_eps[last.run.cep].in_use =>
                 client_eps[last.run.cep].cache_key =
                     nanocoap_cache_key_generate(last.pkt)
            /\ last.reply \in {<<>>,
                               <<gcoap_response(COAP_CODE_BAD_OPTION)>>,
                               <<gcoap_response(COAP_CODE_PROXYING_NOT_SUPPORTED)>>}

C4_Witness ==
    /\ Req
    /\ cache_used
    /\ HadFreeSlot
    /\ FreshEntry
    /\ last.run.hit
    /\ InUse(last.eps) # {}
    /\ last.reply # <<>>

\* the request the handler was given has the token and the origin endpoint of
\* a request that was open when it arrived
IsDuplicate ==
    /\ Req
    /\ ProxyUriOf(last.pkt).ok
    /\ ProxyUriOf(last.pkt).absolute
    /\ SchemeIsCoap(ProxyUriOf(last.pkt))
    /\ _parse_endpoint(ProxyUriOf(last.pkt), netifs).ok
    /\ gcoap_forward_proxy_find_req_memo(
           last.memos, last.pkt, _parse_endpoint(ProxyUriOf(last.pkt), netifs).ep) # {}

\* C5: a request with the token and origin endpoint of a request still in
\* flight makes no new upstream send, the slot allocated for it is released,
\* and the slot and open request of the original are unchanged.
C5_DuplicateNoSend ==
    IsDuplicate =>
        /\ NothingSent
        /\ client_eps = last.eps
        /\ last.run.cep # 0 => ~client_eps[last.run.cep].in_use
        /\ \A m \in last.memos :
             (m.token = last.pkt.token /\ m.code = last.pkt.code) =>
                (m \in memos /\ client_eps[m.context].in_use)

C5_Witness ==
    /\ IsDuplicate
    /\ last.run.dup
    /\ last.run.cep # 0
    /\ InUse(last.eps) # {}

\* C6, as stated: in every state of the slot table a duplicate of a request
\* in flight gets handler length 0 and no response.
C6_DuplicateAlwaysSilent ==
    IsDuplicate => (last.len = 0 /\ last.reply = <<>>)

\* C6, amended: a duplicate of a request in flight gets handler length 0 and
\* no response when a slot is free and the cache holds no fresh entry for
\* it; with every slot in use it is answered 5.00, and with a fresh entry it
\* is answered from the cache.
C6_DuplicateSilentWithFreeSlot ==
    IsDuplicate =>
        /\ (HadFreeSlot /\ ~FreshEntry) =>
             (last.run.dup /\ last.len = 0 /\ last.reply = <<>>)
        /\ ~HadFreeSlot =>
             last.reply = <<gcoap_response(COAP_CODE_INTERNAL_SERVER_ERROR)>>
        /\ (HadFreeSlot /\ FreshEntry) =>
             (last.run.hit /\ last.len > 0 /\ last.reply = last.run.resp)

C6_Witness ==
    /\ IsDuplicate
    /\ HadFreeSlot
    /\ ~FreshEntry
    /\ last.run.dup
    /\ last.len = 0
    /\ last.reply = <<>>

\* C7: a request whose Proxy-Uri parses as an absolute URI with a scheme
\* other than exactly coap, and that is not answered from the cache, is
\* answered 5.05, sends nothing upstream and has its slot released.
C7_OtherSchemeRefused ==
    (/\ Req
     /\ HadFreeSlot
     /\ ~last.run.hit
     /\ ProxyUriOf(last.pkt).ok
     /\ ProxyUriOf(last.pkt).absolute
     /\ ProxyUriOf(last.pkt).scheme # Str_coap) =>
        /\ last.reply = <<gcoap_response(COAP_CODE_PROXYING_NOT_SUPPORTED)>>
        /\ NothingSent
        /\ client_eps = last.eps

\* the Proxy-Uri of the request does not parse or is relative
Malformed == ~ProxyUriOf(last.pkt).ok \/ ~ProxyUriOf(last.pkt).absolute

\* the origin endpoint of the request cannot be resolved
Unresolvable == ~_parse_endpoint(ProxyUriOf(last.pkt), netifs).ok

\* the answer is 4.02, nothing went upstream and the slot is free again
Refused402 ==
    /\ last.reply = <<gcoap_response(COAP_CODE_BAD_OPTION)>>
    /\ NothingSent
    /\ ~client_eps[last.run.cep].in_use
    /\ client_eps = last.eps

\* C8, as stated: a request not answered from the cache whose Proxy-Uri is
\* malformed or relative, whose origin endpoint cannot be resolved, or whose
\* Uri-Path/Uri-Query insertion fails, is answered 4.02, sends nothing and
\* leaves its slot free.
C8_FormatErrorAlways402 ==
    (/\ Req
     /\ HadFreeSlot
     /\ ~last.run.hit
     /\ (Malformed \/ Unresolvable \/ last.run.rewrite = "EINVAL")) => Refused402

\* C8, amended: the same, where the unresolvable origin endpoint is that of a
\* Proxy-Uri that parsed as absolute and whose scheme the proxy took for
\* CoAP; an absolute Proxy-Uri with any other scheme is answered 5.05 before
\* its endpoint is looked at.
C8_FormatError402 ==
    (/\ Req
     /\ HadFreeSlot
     /\ ~last.run.hit
     /\ \/ Malformed
        \/ SchemeIsCoap(ProxyUriOf(last.pkt)) /\ Unresolvable
        \/ last.run.rewrite = "EINVAL") => Refused402

C8_Witness ==
    /\ Req
    /\ HadFreeSlot
    /\ ~last.run.hit
    /\ last.run.rewrite = "EINVAL"
    /\ InUse(last.eps) # {}
    /\ Refused402

\* C9: the outbound request the Option Rewriter builds holds no Proxy-Uri
\* option, for every inbound list of options in ascending order.
C9_NoProxyUriOutbound ==
    Rew => CountOpt(last.res.opts, COAP_OPT_PROXY_URI) = 0

C9_Witness ==
    /\ Rew
    /\ last.res.ret # -EINVAL
    /\ CountOpt(last.client_opts, COAP_OPT_PROXY_URI) >= 2
    /\ Len(last.res.opts) >= 2

\* C10: the outbound request holds at most one ETag option; it holds one
\* exactly when a cache entry with an ETag of non-zero length was given, and
\* then with the value of that ETag; no ETag of the client is copied.
C10_OnlyCacheEtag ==
    (Rew /\ last.res.ret # -EINVAL) =>
        EtagsOf(last.res.opts) =
            IF /\ last.ce # <<>>
               /\ coap_opt_get_opaque_len(last.ce[1].response.opts, COAP_OPT_ETAG) > 0
            THEN <<Opt(COAP_OPT_ETAG,
                       coap_opt_get_opaque_val(last.ce[1].response.opts,
                                               COAP_OPT_ETAG))>>
            ELSE <<>>

C10_Witness ==
    /\ Rew
    /\ last.res.ret # -EINVAL
    /\ CountOpt(last.client_opts, COAP_OPT_ETAG) >= 2
    /\ last.ce # <<>>
    /\ coap_opt_get_opaque_len(last.ce[1].response.opts, COAP_OPT_ETAG) > 0
    /\ Len(EtagsOf(last.res.opts)) = 1

(***************************************************************************)
(* Properties of the response handler.                                     *)
(***************************************************************************)
\* the response handler ran last
Resp == last.op = "response"

\* the slot the response handler was given, as it was when the handler started
RespSlot == last.eps[last.memo.context]

\* the handler released its slot and left every other slot as it was
SlotReleased == client_eps = [last.eps EXCEPT ![last.memo.context] = ZeroSlot]

\* C11: with an outcome other than RESP the response handler dispatches
\* nothing, makes no cache lookup, update or process call, and releases the
\* slot; every other slot is unchanged.
C11_NonRespOnlyReleases ==
    (Resp /\ last.state # "RESP") =>
        /\ last.dispatched = <<>>
        /\ last.lookups = 0
        /\ last.processed = <<>>
        /\ cache = last.cache
        /\ SlotReleased

C11_Witness ==
    /\ Resp
    /\ last.state = "TIMEOUT"
    /\ cache_used
    /\ RespSlot.in_use
    /\ cache[RespSlot.cache_key] # <<>>
    /\ \E i \in Slots : i # last.memo.context /\ client_eps[i].in_use
    /\ ~client_eps[last.memo.context].in_use

\* C12: on RESP the origin response is relayed verbatim to the address of the
\* slot exactly when the cache is not in use, or the code is not 2.03 Valid,
\* or the slot is validating; at most one message is dispatched and it goes
\* to the address of the slot.
C12_RelayCondition ==
    (Resp /\ last.state = "RESP") =>
        /\ (\E i \in 1..Len(last.dispatched) :
               last.dispatched[i] = Dispatch(last.pdu, RespSlot.ep))
           <=> (~cache_used \/ last.pdu.code # COAP_CODE_VALID \/ RespSlot.validating)
        /\ Len(last.dispatched) <= 1
        /\ \A i \in 1..Len(last.dispatched) : last.dispatched[i].to = RespSlot.ep

C12_Witness ==
    /\ Resp
    /\ last.state = "RESP"
    /\ cache_used
    /\ last.pdu.code = COAP_CODE_VALID
    /\ RespSlot.validating
    /\ last.dispatched = <<Dispatch(last.pdu, RespSlot.ep)>>

\* C13: with the cache in use, a response is passed to the process operation
\* of the cache only if it is not 2.03 Valid, and every response that is not
\* 2.03 Valid for a slot that is not validating is passed with the cache_key
\* of the slot.
C13_ProcessOnlyNonValid ==
    (Resp /\ last.state = "RESP" /\ cache_used) =>
        /\ last.processed # <<>> => last.pdu.code # COAP_CODE_VALID
        /\ (last.pdu.code # COAP_CODE_VALID /\ ~RespSlot.validating) =>
             (/\ Len(last.processed) = 1
              /\ last.processed[1].key = RespSlot.cache_key
              /\ last.processed[1].resp = last.pdu)

\* C15: a 2.03 Valid for a slot that is not validating, with no entry in the
\* cache for the cache_key of the slot, is dropped: nothing is dispatched,
\* no request is sent upstream, the cache is as it was, the slot is released.
C15_ValidWithoutEntryDropped ==
    (/\ Resp
     /\ last.state = "RESP"
     /\ cache_used
     /\ last.pdu.code = COAP_CODE_VALID
     /\ ~RespSlot.validating
     /\ last.cache[RespSlot.cache_key] = <<>>) =>
        /\ last.dispatched = <<>>
        /\ last.processed = <<>>
        /\ cache = last.cache
        /\ memos = last.memos \ {last.memo}
        /\ SlotReleased

C15_Witness ==
    /\ Resp
    /\ last.state = "RESP"
    /\ cache_used
    /\ last.pdu.code = COAP_CODE_VALID
    /\ ~RespSlot.validating
    /\ last.cache[RespSlot.cache_key] = <<>>
    /\ last.dispatched = <<>>
    /\ ~client_eps[last.memo.context].in_use

(***************************************************************************)
(* The response handler for one forwarded request: the slot and the open   *)
(* request are those the request handler leaves for a GET with or without  *)
(* an ETag, the cache is empty or holds an earlier 2.05 for the key, and   *)
(* the origin answers with any Max-Age a uint32_t holds.                   *)
(***************************************************************************)
U32_MAX == [hi |-> 65535, lo |-> 65535]

\* the requests forwarded: GET for UriBase, with and without an ETag
RespRequests ==
    {[code |-> COAP_METHOD_GET, token |-> 1,
      opts |-> pre \o <<Opt(COAP_OPT_PROXY_URI, UriBase)>>] :
        pre \in {<<>>, <<Opt(COAP_OPT_ETAG, <<1>>)>>}}

\* the 2.05 an earlier exchange left in the cache at time 0
EarlierContent ==
    [code |-> COAP_CODE_CONTENT,
     opts |-> <<Opt(COAP_OPT_ETAG, <<1>>), Opt(COAP_OPT_MAX_AGE, <<ToU32(1)>>)>>,
     payload |-> <<"hi">>]

RespCaches ==
    {[k \in Keys |-> <<>>],
     nanocoap_cache_process([k \in Keys |-> <<>>], UriBase.path, COAP_METHOD_GET,
                            EarlierContent, 0)}

\* the values of the Max-Age option of an origin response
WideMaxAges == {ToU32(0), ToU32(1), [hi |-> 65535, lo |-> 65534], U32_MAX}

WideResponses ==
    {[code |-> c, opts |-> <<Opt(COAP_OPT_MAX_AGE, <<a>>)>>, payload |-> <<>>] :
        c \in {COAP_CODE_VALID, COAP_CODE_CONTENT}, a \in WideMaxAges}
    \cup {[code |-> COAP_CODE_VALID, opts |-> <<>>, payload |-> <<>>]}

WideResponseInputs == WideResponses \cup {NoResponse}

\* the state the request handler leaves when it forwards a request
Forwarded(run, cch, t, used) ==
    /\ run.memos # {}
    /\ client_eps = run.eps
    /\ memos = run.memos
    /\ cache = cch
    /\ now = t
    /\ cache_used = used
    /\ last = Idle

InitResp ==
    /\ netifs \in NetifConfigs
    /\ \E pkt \in RespRequests, t \in 0..MaxNow, cch \in RespCaches, used \in BOOLEAN :
        /\ used \/ cch = [k \in Keys |-> <<>>]
        /\ Forwarded(_forward_proxy_handler([i \in Slots |-> ZeroSlot], {}, cch, t,
                                            netifs, used, pkt, 1,
                                            [send |-> "sent", add_ok |-> AllRoom]),
                     cch, t, used)

\* the engine reports the outcome of the open request
ResponseHandlerWide ==
    /\ last = Idle
    /\ \E memo \in memos, state \in MemoStates, resp \in WideResponseInputs :
        /\ (state = "RESP") = (resp # NoResponse)
        /\ Responded(_forward_resp_handler(client_eps, cache, now, cache_used,
                                           memo, state, resp),
                     memo, state, resp)
    /\ UNCHANGED <<now, netifs, cache_used>>

NextResp ==
    \/ ResponseHandlerWide
    \/ EngineIdle

SpecResp == InitResp /\ [][NextResp]_vars

\* a + b of two uint32_t as the number it is: 33 bits
Sum33(a, b) ==
    [carry |-> (a.hi + b.hi + ((a.lo + b.lo) \div 65536)) \div 65536,
     hi |-> (a.hi + b.hi + ((a.lo + b.lo) \div 65536)) % 65536,
     lo |-> (a.lo + b.lo) % 65536]

\* the Max-Age of the response the handler was given, 60 without one
GivenMaxAge ==
    IF CountOpt(last.pdu.opts, COAP_OPT_MAX_AGE) = 0 THEN ToU32(DEFAULT_MAX_AGE)
    ELSE last.pdu.opts[FirstOpt(last.pdu.opts, COAP_OPT_MAX_AGE)].val[1]

\* a 2.03 Valid came for a slot that is not validating and whose entry exists
ProxyRevalidated ==
    /\ Resp
    /\ last.state = "RESP"
    /\ cache_used
    /\ last.pdu.code = COAP_CODE_VALID
    /\ ~RespSlot.validating
    /\ last.cache[RespSlot.cache_key] # <<>>

\* C14: on a 2.03 Valid for a slot that is not validating, with the entry of
\* the slot's cache_key in the cache, the max_age of the entry becomes now +
\* Max-Age of the response (now + 60 without a Max-Age), exactly one response
\* is dispatched to the slot's client, built from the code, options and
\* payload of the entry, and the 2.03 is not relayed.
C14_RevalidationExtends ==
    ProxyRevalidated =>
        /\ cache[RespSlot.cache_key] # <<>>
        /\ [carry |-> 0,
            hi |-> cache[RespSlot.cache_key][1].max_age.hi,
            lo |-> cache[RespSlot.cache_key][1].max_age.lo]
             = Sum33(ToU32(now), GivenMaxAge)
        /\ last.dispatched =
             <<Dispatch([code |-> last.cache[RespSlot.cache_key][1].response.code,
                         opts |-> last.cache[RespSlot.cache_key][1].response.opts,
                         payload |-> last.cache[RespSlot.cache_key][1].response.payload],
                        RespSlot.ep)>>

(***************************************************************************)
(* Endpoint resolution: the request handler with zero, one and two         *)
(* registered interfaces, for Proxy-Uri values with every kind of zone-id  *)
(* and of port.                                                            *)
(***************************************************************************)
PENetifConfigs == {{}, {6}, {6, 7}}

PEZones ==
    {<<>>, <<"6">>, <<"7">>, <<"9">>, <<"7", "x">>,
     <<"0", "0", "0", "0", "0", "0", "0", "6">>}

PEPorts ==
    {<<>>, <<"0">>, <<"1">>, <<"0", "8", "0">>, <<"6", "5", "5", "3", "5">>,
     <<"6", "5", "5", "3", "6">>, <<"6", "5", "5", "3", "7">>}

PEUris ==
    {[UriBase EXCEPT !.ipv6addr = a, !.zoneid = z] :
        a \in {ADDR_GLOBAL, ADDR_LINK_LOCAL}, z \in PEZones}
    \cup {[UriBase EXCEPT !.port = p] : p \in PEPorts}

PERequests ==
    {[code |-> COAP_METHOD_GET, token |-> 1,
      opts |-> <<Opt(COAP_OPT_PROXY_URI, u)>>] : u \in PEUris}

InitPE ==
    /\ client_eps = [i \in Slots |-> ZeroSlot]
    /\ memos = {}
    /\ cache = [k \in Keys |-> <<>>]
    /\ now = 0
    /\ netifs \in PENetifConfigs
    /\ cache_used \in BOOLEAN
    /\ last = Idle

RequestHandlerPE ==
    /\ last = Idle
    /\ \E pkt \in PERequests :
        /\ _request_matcher_forward_proxy(pkt)
        /\ Handled(_forward_proxy_handler(client_eps, memos, cache, now, netifs,
                                          cache_used, pkt, 1,
                                          [send |-> "sent", add_ok |-> AllRoom]),
                   pkt, 1)
    /\ UNCHANGED <<cache, now, netifs, cache_used>>

NextPE ==
    \/ RequestHandlerPE
    \/ EngineIdle

SpecPE == InitPE /\ [][NextPE]_vars

\* the number a string of decimal digits denotes
RECURSIVE DecimalValue(_)
DecimalValue(ds) ==
    IF ds = <<>> THEN 0
    ELSE 10 * DecimalValue(SubSeq(ds, 1, Len(ds) - 1))
         + (CASE ds[Len(ds)] = "0" -> 0 [] ds[Len(ds)] = "1" -> 1
              [] ds[Len(ds)] = "2" -> 2 [] ds[Len(ds)] = "3" -> 3
              [] ds[Len(ds)] = "4" -> 4 [] ds[Len(ds)] = "5" -> 5
              [] ds[Len(ds)] = "6" -> 6 [] ds[Len(ds)] = "7" -> 7
              [] ds[Len(ds)] = "8" -> 8 [] ds[Len(ds)] = "9" -> 9)

\* the decimal digits of the number n > 0
RECURSIVE ToDecimal(_)
ToDecimal(n) ==
    IF n = 0 THEN <<>>
    ELSE ToDecimal(n \div 10)
         \o <<(CASE n % 10 = 0 -> "0" [] n % 10 = 1 -> "1" [] n % 10 = 2 -> "2"
                 [] n % 10 = 3 -> "3" [] n % 10 = 4 -> "4" [] n % 10 = 5 -> "5"
                 [] n % 10 = 6 -> "6" [] n % 10 = 7 -> "7" [] n % 10 = 8 -> "8"
                 [] n % 10 = 9 -> "9")>>

\* the request handler got as far as resolving the endpoint of a Proxy-Uri
ReachedResolution ==
    /\ Req
    /\ HadFreeSlot
    /\ ~last.run.hit
    /\ last.run.resolved # "none"

\* the endpoint the handler resolved and sent to is e
SentTo(P(_)) == last.run.sent # <<>> => P(last.run.sent[1].ep)

\* C16: a link-local literal with no zone-id is rejected with 4.02 unless
\* exactly one interface is registered; with no zone-id and exactly one
\* interface that interface is selected; with a zone-id naming a registered
\* interface that interface is selected.
C16_InterfaceSelection ==
    (ReachedResolution /\ ProxyUriOf(last.pkt).port = <<>>) =>
        /\ (/\ ProxyUriOf(last.pkt).ipv6addr = ADDR_LINK_LOCAL
            /\ ProxyUriOf(last.pkt).zoneid = <<>>
            /\ Cardinality(netifs) # 1) =>
               (/\ last.run.resolved = "failed"
                /\ last.reply = <<gcoap_response(COAP_CODE_BAD_OPTION)>>
                /\ NothingSent)
        /\ (/\ ProxyUriOf(last.pkt).zoneid = <<>>
            /\ Cardinality(netifs) = 1) =>
               (/\ last.run.resolved = "ok"
                /\ SentTo(LAMBDA e : e.netif \in netifs))
        /\ \A i \in netifs :
             ProxyUriOf(last.pkt).zoneid = ToDecimal(i) =>
               (/\ last.run.resolved = "ok"
                /\ SentTo(LAMBDA e : e.netif = i))

C16_Witness ==
    /\ ReachedResolution
    /\ last.eps[1].in_use
    /\ ProxyUriOf(last.pkt).ipv6addr = ADDR_LINK_LOCAL
    /\ ProxyUriOf(last.pkt).zoneid = <<>>
    /\ Cardinality(netifs) = 1
    /\ last.run.sent # <<>>
    /\ last.run.sent[1].ep.netif = 6

\* C20: with a port segment of decimal digits the endpoint resolves only if
\* the value of the digits is not zero, and the port of the resolved
\* endpoint is that value, also for values above 65535; without a port
\* segment the port is the default CoAP port.
C20_PortIsDecimalValue ==
    (/\ ReachedResolution
     /\ ProxyUriOf(last.pkt).zoneid = <<>>
     /\ ProxyUriOf(last.pkt).ipv6addr = ADDR_GLOBAL) =>
        IF ProxyUriOf(last.pkt).port = <<>>
        THEN /\ last.run.resolved = "ok"
             /\ SentTo(LAMBDA e : e.port = COAP_PORT)
        ELSE /\ last.run.resolved = "ok" => DecimalValue(ProxyUriOf(last.pkt).port) # 0
             /\ SentTo(LAMBDA e : e.port = DecimalValue(ProxyUriOf(last.pkt).port))

(***************************************************************************)
(* The validating flag of a slot.                                          *)
(***************************************************************************)
\* the request handler passed the request on to the origin
Forwarding == Req /\ last.run.rewrite = "ok" /\ last.run.send = "sent"

\* the flag of a slot is not touched while the upstream request of the slot
\* stays open, so the response handler reads what the rewriter left
OpenSlotsKeepFlag ==
    \A m \in memos \cap memos' :
        client_eps'[m.context].validating = client_eps[m.context].validating

\* C18: the slot of a forwarded request is validating exactly when the
\* inbound request carried at least one ETag option, with or without a cache
\* entry, and stays so until the response handler runs for it; a newly
\* allocated slot and every free slot is not validating.
C18_ValidatingIffEtag ==
    /\ [](/\ Forwarding =>
               client_eps[last.run.cep].validating =
                   (CountOpt(last.pkt.opts, COAP_OPT_ETAG) >= 1)
          /\ \A i \in Slots : ~client_eps[i].in_use => ~client_eps[i].validating
          /\ \A c \in Clients :
                FirstFree(client_eps) # 0 =>
                    ~_allocate_client_ep(client_eps, c).eps[FirstFree(client_eps)].validating)
    /\ [][OpenSlotsKeepFlag]_vars

\* a request with an ETag and no cache entry was forwarded and its slot is
\* validating
C18_Witness ==
    /\ Forwarding
    /\ CountOpt(last.pkt.opts, COAP_OPT_ETAG) >= 1
    /\ nanocoap_cache_key_lookup(cache, nanocoap_cache_key_generate(last.pkt)) = <<>>
    /\ client_eps[last.run.cep].validating

(***************************************************************************)
(* _cache_build_response on its own: every method, every choice of ETag    *)
(* options in the request, every kind of ETag in the cache entry.          *)
(***************************************************************************)
BuildEtags ==
    {<<>>,
     <<Opt(COAP_OPT_ETAG, <<1>>)>>,
     <<Opt(COAP_OPT_ETAG, <<2>>)>>,
     <<Opt(COAP_OPT_ETAG, <<1, 1>>)>>,
     <<Opt(COAP_OPT_ETAG, <<>>)>>,
     <<Opt(COAP_OPT_ETAG, <<1>>), Opt(COAP_OPT_ETAG, <<2>>)>>}

BuildRequests ==
    {[code |-> c, token |-> 1, opts |-> e \o <<Opt(COAP_OPT_PROXY_URI, UriBase)>>] :
        c \in {COAP_METHOD_GET, COAP_METHOD_POST, COAP_METHOD_FETCH}, e \in BuildEtags}

BuildEntries ==
    {CachedResponse(e \o <<Opt(COAP_OPT_MAX_AGE, <<ToU32(1)>>)>>) :
        e \in {<<>>, <<Opt(COAP_OPT_ETAG, <<1>>)>>, <<Opt(COAP_OPT_ETAG, <<1, 1>>)>>,
               <<Opt(COAP_OPT_ETAG, <<>>)>>}}

\* what a call of _cache_build_response leaves: the buffer, the length it
\* returned and the message of that length
Built(buf, ret, pkt, ce) ==
    last' = [op |-> "build", pkt |-> pkt, ce |-> ce, buf |-> buf, ret |-> ret,
             msg |-> BufMessage(buf, ret)]

Build ==
    /\ last = Idle
    /\ \E pkt \in BuildRequests, ce \in BuildEntries :
        Built(_cache_build_response(ce, pkt), _cache_build_response_ret(ce, pkt),
              pkt, ce)
    /\ UNCHANGED <<client_eps, memos, cache, now, netifs, cache_used>>

NextBuild ==
    \/ Build
    \/ EngineIdle

SpecBuild == Init /\ [][NextBuild]_vars

\* the values of the first ETag option of a list of options, <<>> without one
FirstEtag(opts) ==
    IF EtagsOf(opts) = <<>> THEN <<>> ELSE <<EtagsOf(opts)[1].val>>

\* the request given to _cache_build_response is a GET or FETCH whose ETag is
\* not empty and is the ETag of the cache entry
RequestValidates ==
    /\ last.pkt.code \in {COAP_METHOD_GET, COAP_METHOD_FETCH}
    /\ FirstEtag(last.pkt.opts) # <<>>
    /\ FirstEtag(last.pkt.opts)[1] # <<>>
    /\ FirstEtag(last.pkt.opts) = FirstEtag(last.ce.response.opts)

\* C19: the response built from a cache entry is a 2.03 Valid carrying the
\* ETag of the request exactly when the request is a GET or FETCH with a
\* non-empty ETag equal to the ETag of the entry; in every other case it has
\* the code of the cached response followed by its options and payload.
C19_BuiltResponse ==
    last.op = "build" =>
        last.msg = IF RequestValidates
                   THEN [code |-> COAP_CODE_VALID,
                         opts |-> <<Opt(COAP_OPT_ETAG, FirstEtag(last.pkt.opts)[1])>>,
                         payload |-> <<>>]
                   ELSE [code |-> last.ce.response.code,
                         opts |-> last.ce.response.opts,
                         payload |-> last.ce.response.payload]

(***************************************************************************)
(* Release of the slots.  The engine reports one outcome for every open    *)
(* upstream request: the action that reports the outcome for the request   *)
(* of a slot is strongly fair, since it is enabled each time the engine is *)
(* back in its loop, and a handler always returns to the engine.           *)
(***************************************************************************)
LiveRequests ==
    {[code |-> COAP_METHOD_GET, token |-> t,
      opts |-> e \o <<Opt(COAP_OPT_PROXY_URI, UriBase)>>] :
        t \in Tokens, e \in {<<>>, <<Opt(COAP_OPT_ETAG, <<1>>)>>}}

LiveEnvs == [send : SendResults, add_ok : {AllRoom}]

\* the engine hands a matched request to _forward_proxy_handler
RequestHandlerLive ==
    /\ last = Idle
    /\ \E pkt \in LiveRequests, client \in Clients, env \in LiveEnvs :
        /\ _request_matcher_forward_proxy(pkt)
        /\ Handled(_forward_proxy_handler(client_eps, memos, cache, now, netifs,
                                          cache_used, pkt, client, env),
                   pkt, client)
    /\ UNCHANGED <<cache, now, netifs, cache_used>>

\* the engine reports the outcome of the open request of slot i to
\* _forward_resp_handler and drops the memo
Outcome(i) ==
    /\ last = Idle
    /\ \E memo \in memos, state \in MemoStates, resp \in ResponseInputs :
        /\ memo.context = i
        /\ (state = "RESP") = (resp # NoResponse)
        /\ Responded(_forward_resp_handler(client_eps, cache, now, cache_used,
                                           memo, state, resp),
                     memo, state, resp)
    /\ UNCHANGED <<now, netifs, cache_used>>

NextLive ==
    \/ RequestHandlerLive
    \/ \E i \in Slots : Outcome(i)
    \/ EngineIdle

SpecLive ==
    /\ Init
    /\ [][NextLive]_vars
    /\ WF_vars(EngineIdle)
    /\ \A i \in Slots : SF_vars(Outcome(i))

\* C17: when the engine reports one outcome for every upstream request it
\* was handed, every slot that is allocated is released in the end, so a
\* saturated table becomes free again.
C17_SlotsEventuallyReleased ==
    \A i \in Slots : client_eps[i].in_use ~> ~client_eps[i].in_use

====
